---- MODULE Spec2Model ----
(***************************************************************************)
(* Model of lab5/lab.cpp: DynamicMapMemoryResource (a memory_resource that *)
(* records every block it hands out in a std::map) and pmr_vector<T> (a    *)
(* move-only growable array that takes its storage from such a resource).  *)
(*                                                                         *)
(* The system allocator (malloc/free) is modelled as a partial map from    *)
(* addresses to the byte size of the block that lives there; the contents  *)
(* of a block are a sequence of element slots, each uninitialised or       *)
(* holding a live value.  Every public operation of the two classes is one *)
(* atomic action (the program is single threaded).                         *)
(*                                                                         *)
(* Five specifications share the actions:                                  *)
(*   Spec        vectors are the only users of the resources, which        *)
(*               outlive them;                                             *)
(*   SpecMix     one vector and callers that are not vectors use the       *)
(*               resources, which may be destroyed at any time;            *)
(*   SpecAppend  one vector, with the values appended to it kept as        *)
(*               history;                                                  *)
(*   SpecLife    vectors are the only users of the resources, which may    *)
(*               be destroyed before them;                                 *)
(*   SpecAll     vectors and other callers, resources destroyed at any     *)
(*               time.                                                     *)
(* In an action, \E S \in {e} : ... names the value of e.                  *)
(***************************************************************************)
EXTENDS Integers, Sequences, FiniteSets, TLC

\* ---- bounds of the model ------------------------------------------------
NumVec == 2       \* pmr_vector objects
NumRes == 2       \* DynamicMapMemoryResource objects
MaxAddr == 3      \* addresses malloc can hand out
MaxSize == 3      \* push_back is not called on a vector holding MaxSize elements
MaxVal == 2       \* element values
MaxDirect == 1    \* direct allocate() calls ask for 1..MaxDirect elements' worth of bytes

\* ---- program constants --------------------------------------------------
ElemSize == 4     \* sizeof(T) for pmr_vector<int>

Null == 0         \* nullptr
Uninit == 0       \* a slot that holds no constructed element

Vec == 1..NumVec
Res == 1..NumRes
Addr == 1..MaxAddr
Val == 1..MaxVal
ByteSizes == {k * ElemSize : k \in 1..MaxDirect}        \* sizes asked of allocate()
DeallocSizes == {k * ElemSize : k \in 0..MaxDirect}     \* sizes passed to deallocate()

VARIABLES
    allocated_blocks_,  \* [Res -> map ptr -> bytes]   (lab.cpp:13)
    resAlive,           \* [Res -> BOOLEAN]  the resource has not been destroyed
    heap,               \* malloc's state: map ptr -> bytes of the blocks malloc'ed and not freed
    mem,                \* [Addr -> Seq(slot)]  contents of the blocks
    data_,              \* [Vec -> Addr \cup {Null}]   (lab.cpp:91)
    size_,              \* [Vec -> Nat]                (lab.cpp:92)
    capacity_,          \* [Vec -> Nat]                (lab.cpp:93)
    alloc_,             \* [Vec -> Res]                (lab.cpp:94)
    vecAlive,           \* [Vec -> BOOLEAN]  the vector is constructed and not destroyed
    issued,             \* history: [Res -> map ptr -> bytes] handles returned by allocate, not yet passed to deallocate
    pushed,             \* history kept under SpecAppend: [Vec -> Seq(Val)] the values appended since the vector was constructed or last cleared
    cleared,            \* history kept under SpecAppend: [Vec -> BOOLEAN] clear() was called since the vector was constructed
    errs,               \* history: misuse of memory observed so far
    last                \* history: the last operation, the state it started from and the calls it made

vars == <<allocated_blocks_, resAlive, heap, mem, data_, size_, capacity_, alloc_,
          vecAlive, issued, pushed, cleared, errs, last>>

\* ---- std::map<void*, size_t> ---------------------------------------------
EmptyMap == [a \in {} |-> 0]

MapFind(m, p) == p \in DOMAIN m

MapErase(m, p) == [a \in (DOMAIN m) \ {p} |-> m[a]]

MapSet(m, p, bytes) == [a \in (DOMAIN m) \cup {p} |-> IF a = p THEN bytes ELSE m[a]]

RECURSIVE SumBytes(_)
SumBytes(m) ==
    IF DOMAIN m = {} THEN 0
    ELSE LET a == CHOOSE x \in DOMAIN m : TRUE
         IN m[a] + SumBytes([b \in (DOMAIN m) \ {a} |-> m[b]])

\* ---- element slots -------------------------------------------------------
LiveSlots(s) == {i \in 1..Len(s) : s[i] # Uninit}
FreshBlock(bytes) == [i \in 1..(bytes \div ElemSize) |-> Uninit]

\* ---- the world an operation runs in ---------------------------------------
\* blocks: allocated_blocks_ of every resource; heap, mem: the system allocator;
\* issued, errs: history; calls: the allocator calls of the operation so far;
\* freed: the bytes the operation handed back to free().
World == [blocks |-> allocated_blocks_, heap |-> heap, mem |-> mem,
          issued |-> issued, errs |-> errs, calls |-> <<>>, freed |-> 0]

FreeAddrs == Addr \ DOMAIN heap

\* std::malloc returning p (a block no live allocation occupies)
Malloc(W, p, bytes) ==
    [W EXCEPT !.heap = MapSet(@, p, bytes), !.mem[p] = FreshBlock(bytes)]

\* std::free(p)
Free(W, p) ==
    IF MapFind(W.heap, p)
    THEN [W EXCEPT !.heap = MapErase(@, p),
                   !.mem[p] = <<>>,
                   !.freed = @ + W.heap[p]]
    ELSE [W EXCEPT !.errs = @ \cup {"double_free"}]

\* ---- DynamicMapMemoryResource ----------------------------------------------
\* do_allocate; p is what std::malloc returned (Null: malloc failed, bad_alloc
\* is thrown and nothing is recorded).
do_allocate(W, r, p, bytes) ==
    IF p = Null THEN W
    ELSE LET W1 == Malloc(W, p, bytes)
         IN [W1 EXCEPT !.blocks[r] = MapSet(@, p, bytes)]

\* (faulty variant: frees the block but leaves its entry in the map)
do_deallocate_noerase(W, r, p, bytes) ==
    IF MapFind(W.blocks[r], p) THEN Free(W, p) ELSE W
\* (faulty variant: a block is released only when bytes is the recorded size)
do_deallocate_sizecheck(W, r, p, bytes) ==
    IF MapFind(W.blocks[r], p) /\ W.blocks[r][p] = bytes
    THEN LET W1 == Free(W, p)
         IN [W1 EXCEPT !.blocks[r] = MapErase(@, p)]
    ELSE W
\* do_deallocate; the bytes argument is not looked at.
do_deallocate(W, r, p, bytes) ==
    IF MapFind(W.blocks[r], p)
    THEN LET W1 == Free(W, p)
         IN [W1 EXCEPT !.blocks[r] = MapErase(@, p)]
    ELSE W

\* the loop of ~DynamicMapMemoryResource: free every key of the map
RECURSIVE FreeAll(_, _)
FreeAll(W, ptrs) ==
    IF ptrs = {} THEN W
    ELSE LET p == CHOOSE x \in ptrs : TRUE
         IN FreeAll(Free(W, p), ptrs \ {p})

\* (faulty variant: the map is cleared and no block is freed)
DtorClearOnly(W, r) == [W EXCEPT !.blocks[r] = EmptyMap]
\* (faulty variant: the map is not cleared)
DtorKeepMap(W, r) == FreeAll(W, DOMAIN W.blocks[r])
\* ~DynamicMapMemoryResource(): free every remaining block, then clear the map
DynamicMapMemoryResource_dtor(W, r) ==
    LET W1 == FreeAll(W, DOMAIN W.blocks[r])
    IN [W1 EXCEPT !.blocks[r] = EmptyMap]

\* memory_resource::allocate / deallocate as a caller sees them: the call is
\* logged, and the handle enters or leaves the caller's side of the books.
Allocate(W, r, p, bytes) ==
    LET W1 == do_allocate(W, r, p, bytes)
    IN [W1 EXCEPT !.calls = Append(@, [fn |-> "allocate", res |-> r, ptr |-> p,
                                        bytes |-> bytes, found |-> FALSE, recorded |-> 0]),
                  !.issued[r] = IF p = Null THEN @
                                ELSE [a \in (DOMAIN @) \cup {p} |-> IF a = p THEN bytes ELSE @[a]]]

Deallocate(W, r, p, bytes) ==
    LET W1 == do_deallocate(W, r, p, bytes)
        was == p \in DOMAIN W.blocks[r]
    IN [W1 EXCEPT !.calls = Append(@, [fn |-> "deallocate", res |-> r, ptr |-> p,
                                        bytes |-> bytes, found |-> was,
                                        recorded |-> IF was THEN W.blocks[r][p] ELSE 0]),
                  !.issued[r] = [a \in (DOMAIN @) \ {p} |-> @[a]],
                  !.errs = @ \cup (IF was /\ LiveSlots(W.mem[p]) # {}
                                   THEN {"dealloc_live_elem"} ELSE {})]

\* ---- pmr_vector<T> ---------------------------------------------------------
\* A vector is the record of its four members; an operation maps a state
\* [vec, W] (the vector and the world) to the state it leaves.
VecOf(v) == [data_ |-> data_[v], size_ |-> size_[v], capacity_ |-> capacity_[v],
             alloc_ |-> alloc_[v]]

EmptyVec(r) == [data_ |-> Null, size_ |-> 0, capacity_ |-> 0, alloc_ |-> r]

\* allocator_traits::construct(alloc_, &p[i], x): placement-new of x in slot i of block p
construct(W, p, i, x) ==
    IF ~MapFind(W.heap, p) \/ i + 1 > Len(W.mem[p])
    THEN [W EXCEPT !.errs = @ \cup {"bad_access"}]
    ELSE [W EXCEPT !.mem[p][i + 1] = x,
                   !.errs = @ \cup (IF W.mem[p][i + 1] # Uninit
                                    THEN {"construct_over_live"} ELSE {})]

\* allocator_traits::destroy(alloc_, &p[i]): the destructor of slot i of block p
destroy(W, p, i) ==
    IF ~MapFind(W.heap, p) \/ i + 1 > Len(W.mem[p])
    THEN [W EXCEPT !.errs = @ \cup {"bad_access"}]
    ELSE [W EXCEPT !.mem[p][i + 1] = Uninit,
                   !.errs = @ \cup (IF W.mem[p][i + 1] = Uninit
                                    THEN {"destroy_dead_slot"} ELSE {})]

\* data_[i] read as a value
At(W, p, i) ==
    IF MapFind(W.heap, p) /\ i + 1 <= Len(W.mem[p]) THEN W.mem[p][i + 1] ELSE Uninit

\* (faulty variant: grows by one slot)
NewCapPlusOne(cap) == cap + 1
\* new_cap of grow()
NewCap(cap) == IF cap = 0 THEN 1 ELSE cap * 2

\* (faulty variant: the old slots are not destroyed)
RECURSIVE MoveElemsNoDestroy(_, _, _, _, _)
MoveElemsNoDestroy(W, old, new, i, n) ==
    IF i >= n THEN W
    ELSE MoveElemsNoDestroy(construct(W, new, i, At(W, old, i)), old, new, i + 1, n)

\* the loop of grow(): for i in [i, n): construct new_data[i] from data_[i], destroy data_[i]
RECURSIVE MoveElems(_, _, _, _, _)
MoveElems(W, old, new, i, n) ==
    IF i >= n THEN W
    ELSE MoveElems(destroy(construct(W, new, i, At(W, old, i)), old, i), old, new, i + 1, n)

\* (faulty variant: the old buffer is released before the new one is asked for)
grow_releasefirst(S, p) ==
    LET vec == S.vec
        new_cap == NewCap(vec.capacity_)
        W1 == IF vec.data_ # Null
              THEN Deallocate(S.W, vec.alloc_, vec.data_, vec.capacity_ * ElemSize)
              ELSE S.W
        W2 == Allocate(W1, vec.alloc_, p, new_cap * ElemSize)
        W3 == MoveElems(W2, vec.data_, p, 0, vec.size_)
    IN [vec |-> [vec EXCEPT !.data_ = p, !.capacity_ = new_cap], W |-> W3]
\* (faulty variant: the old buffer is never released)
grow_norelease(S, p) ==
    LET vec == S.vec
        new_cap == NewCap(vec.capacity_)
        W1 == Allocate(S.W, vec.alloc_, p, new_cap * ElemSize)
        W2 == MoveElems(W1, vec.data_, p, 0, vec.size_)
    IN [vec |-> [vec EXCEPT !.data_ = p, !.capacity_ = new_cap], W |-> W2]
\* grow(); p is what std::malloc returned to the allocation, p # Null
grow(S, p) ==
    LET vec == S.vec
        new_cap == NewCap(vec.capacity_)
        W1 == Allocate(S.W, vec.alloc_, p, new_cap * ElemSize)
        W2 == MoveElems(W1, vec.data_, p, 0, vec.size_)
        W3 == IF vec.data_ # Null
              THEN Deallocate(W2, vec.alloc_, vec.data_, vec.capacity_ * ElemSize)
              ELSE W2
    IN [vec |-> [vec EXCEPT !.data_ = p, !.capacity_ = new_cap], W |-> W3]

\* the loop of clear(): destroy slots [i, n)
RECURSIVE DestroyElems(_, _, _, _)
DestroyElems(W, p, i, n) ==
    IF i >= n THEN W ELSE DestroyElems(destroy(W, p, i), p, i + 1, n)

\* (faulty variant: clear() also releases the buffer)
clearAndFree(S) ==
    LET W1 == DestroyElems(S.W, S.vec.data_, 0, S.vec.size_)
        W2 == IF S.vec.data_ # Null
              THEN Deallocate(W1, S.vec.alloc_, S.vec.data_, S.vec.capacity_ * ElemSize)
              ELSE W1
    IN [vec |-> [S.vec EXCEPT !.size_ = 0, !.capacity_ = 0, !.data_ = Null], W |-> W2]
\* clear(): destroy slots [0, size_), size_ = 0
clear(S) ==
    [vec |-> [S.vec EXCEPT !.size_ = 0],
     W |-> DestroyElems(S.W, S.vec.data_, 0, S.vec.size_)]

\* the argument of push_back is a reference: to an object outside every vector
\* (ptr = Null, its value is val) or to the element data_[idx] of a block
ExtRef(x) == [ptr |-> Null, idx |-> 0, val |-> x]
ElemRef(p, i) == [ptr |-> p, idx |-> i, val |-> Uninit]

\* reading through the reference; reading a slot of a block that has been
\* freed, or a slot whose element has been destroyed, yields whatever the
\* memory holds by then: junk
Deref(W, value, junk) ==
    IF value.ptr = Null THEN value.val
    ELSE IF MapFind(W.heap, value.ptr) /\ At(W, value.ptr, value.idx) # Uninit
         THEN At(W, value.ptr, value.idx)
         ELSE junk

\* push_back(value): grow() if full, then construct at data_[size_] from value, ++size_
\* (lines 163-169 and 173-179: the copying and the moving overload do the same);
\* p is what std::malloc returned if the vector grew
push_back(S, p, value, junk) ==
    LET S1 == IF S.vec.size_ >= S.vec.capacity_ THEN grow(S, p) ELSE S
    IN [vec |-> [S1.vec EXCEPT !.size_ = @ + 1],
        W |-> construct(S1.W, S1.vec.data_, S1.vec.size_, Deref(S1.W, value, junk))]

\* (faulty variant: capacity_ is written before the allocation)
push_back_throws_capfirst(S) ==
    LET new_cap == NewCap(S.vec.capacity_)
    IN [vec |-> [S.vec EXCEPT !.capacity_ = new_cap],
        W |-> Allocate(S.W, S.vec.alloc_, Null, new_cap * ElemSize)]
\* push_back(value) when the allocation of grow() throws: the exception leaves
\* grow() at line 98 and push_back at line 164/174
push_back_throws(S) ==
    LET new_cap == NewCap(S.vec.capacity_)
    IN [vec |-> S.vec, W |-> Allocate(S.W, S.vec.alloc_, Null, new_cap * ElemSize)]

\* (faulty variant: the size passed is that of the live elements)
pmr_vector_dtor_bysize(S) ==
    LET S1 == clear(S)
    IN IF S1.vec.data_ # Null
       THEN [vec |-> S1.vec,
             W |-> Deallocate(S1.W, S1.vec.alloc_, S1.vec.data_, S.vec.size_ * ElemSize)]
       ELSE S1
\* ~pmr_vector()
pmr_vector_dtor(S) ==
    LET S1 == clear(S)
    IN IF S1.vec.data_ # Null
       THEN [vec |-> S1.vec,
             W |-> Deallocate(S1.W, S1.vec.alloc_, S1.vec.data_, S1.vec.capacity_ * ElemSize)]
       ELSE S1

\* (faulty variant: the source is not reset)
moveCtorShare(other) == [dst |-> other, src |-> other]
\* pmr_vector(pmr_vector&& other): [dst, src] after the constructor
move_ctor(other) ==
    [dst |-> [data_ |-> other.data_, size_ |-> other.size_,
              capacity_ |-> other.capacity_, alloc_ |-> other.alloc_],
     src |-> [other EXCEPT !.data_ = Null, !.size_ = 0, !.capacity_ = 0]]

\* (faulty variant: the destination keeps its own allocator)
move_assign_keepalloc(this, other, same, W) ==
    IF ~same
    THEN LET S1 == clear([vec |-> this, W |-> W])
             W2 == IF S1.vec.data_ # Null
                   THEN Deallocate(S1.W, S1.vec.alloc_, S1.vec.data_,
                                   S1.vec.capacity_ * ElemSize)
                   ELSE S1.W
         IN [dst |-> [data_ |-> other.data_, size_ |-> other.size_,
                      capacity_ |-> other.capacity_, alloc_ |-> this.alloc_],
             src |-> [other EXCEPT !.data_ = Null, !.size_ = 0, !.capacity_ = 0],
             W |-> W2]
    ELSE [dst |-> this, src |-> this, W |-> W]
\* (faulty variant: the destination's buffer is released through the source's allocator)
move_assign_srcalloc(this, other, same, W) ==
    IF ~same
    THEN LET S1 == clear([vec |-> this, W |-> W])
             W2 == IF S1.vec.data_ # Null
                   THEN Deallocate(S1.W, other.alloc_, S1.vec.data_,
                                   S1.vec.capacity_ * ElemSize)
                   ELSE S1.W
         IN [dst |-> [data_ |-> other.data_, size_ |-> other.size_,
                      capacity_ |-> other.capacity_, alloc_ |-> other.alloc_],
             src |-> [other EXCEPT !.data_ = Null, !.size_ = 0, !.capacity_ = 0],
             W |-> W2]
    ELSE [dst |-> this, src |-> this, W |-> W]
\* (faulty variant: no test for self-assignment)
move_assign_noselfcheck(this, other, same, W) ==
    LET S1 == clear([vec |-> this, W |-> W])
        W2 == IF S1.vec.data_ # Null
              THEN Deallocate(S1.W, S1.vec.alloc_, S1.vec.data_, S1.vec.capacity_ * ElemSize)
              ELSE S1.W
        o == IF same THEN S1.vec ELSE other
    IN [dst |-> [data_ |-> o.data_, size_ |-> o.size_,
                 capacity_ |-> o.capacity_, alloc_ |-> o.alloc_],
        src |-> [o EXCEPT !.data_ = Null, !.size_ = 0, !.capacity_ = 0],
        W |-> W2]
\* operator=(pmr_vector&& other): [dst, src, W] after the assignment; same is
\* the outcome of the test this != &other being false
move_assign(this, other, same, W) ==
    IF ~same
    THEN LET S1 == clear([vec |-> this, W |-> W])
             W2 == IF S1.vec.data_ # Null
                   THEN Deallocate(S1.W, S1.vec.alloc_, S1.vec.data_,
                                   S1.vec.capacity_ * ElemSize)
                   ELSE S1.W
         IN [dst |-> [data_ |-> other.data_, size_ |-> other.size_,
                      capacity_ |-> other.capacity_, alloc_ |-> other.alloc_],
             src |-> [other EXCEPT !.data_ = Null, !.size_ = 0, !.capacity_ = 0],
             W |-> W2]
    ELSE [dst |-> this, src |-> this, W |-> W]

\* ---- what a caller observes ---------------------------------------------------
\* the values met by iterating from begin() to end(): data_[0] .. data_[size_ - 1]
ElemsOf(vec, m) ==
    [i \in 1..vec.size_ |->
        IF vec.data_ # Null /\ i <= Len(m[vec.data_]) THEN m[vec.data_][i] ELSE Uninit]

Elems(v) == ElemsOf(VecOf(v), mem)

\* operator[](i): data_[i]
Index(v, i) ==
    IF data_[v] # Null /\ i + 1 <= Len(mem[data_[v]]) THEN mem[data_[v]][i + 1] ELSE Uninit

\* the record of an operation: its name, the vector it ran on (v), the other
\* object it involved (w), whether it threw, the allocator calls it made and the
\* bytes it handed to free()
LastOf(op, v, w, threw, W) ==
    [op |-> op, v |-> v, w |-> w, threw |-> threw, calls |-> W.calls, freed |-> W.freed]

SetWorld(W) ==
    /\ allocated_blocks_' = W.blocks
    /\ heap' = W.heap
    /\ mem' = W.mem
    /\ issued' = W.issued
    /\ errs' = W.errs

\* upd: the vectors an operation wrote, as a function from them to their new members
SetVecs(upd) ==
    /\ data_' = [v \in Vec |-> IF v \in DOMAIN upd THEN upd[v].data_ ELSE data_[v]]
    /\ size_' = [v \in Vec |-> IF v \in DOMAIN upd THEN upd[v].size_ ELSE size_[v]]
    /\ capacity_' = [v \in Vec |-> IF v \in DOMAIN upd THEN upd[v].capacity_ ELSE capacity_[v]]
    /\ alloc_' = [v \in Vec |-> IF v \in DOMAIN upd THEN upd[v].alloc_ ELSE alloc_[v]]

worldVars == <<allocated_blocks_, heap, mem, issued, errs>>
vecVars == <<data_, size_, capacity_, alloc_, vecAlive>>
hist == <<pushed, cleared>>

\* the resource a vector is bound to still exists (using a vector whose
\* resource is gone is outside the program's contract)
Bound(v) == resAlive[alloc_[v]]

OwnedBuffers == {data_[v] : v \in {u \in Vec : vecAlive[u] /\ Bound(u)}} \ {Null}

\* ---- initial state: the resources are constructed, no vector is -------------------
Init ==
    /\ allocated_blocks_ = [r \in Res |-> EmptyMap]
    /\ resAlive = [r \in Res |-> TRUE]
    /\ heap = EmptyMap
    /\ mem = [a \in Addr |-> <<>>]
    /\ data_ = [v \in Vec |-> Null]
    /\ size_ = [v \in Vec |-> 0]
    /\ capacity_ = [v \in Vec |-> 0]
    /\ alloc_ = [v \in Vec |-> 1]
    /\ vecAlive = [v \in Vec |-> FALSE]
    /\ issued = [r \in Res |-> EmptyMap]
    /\ pushed = [v \in Vec |-> <<>>]
    /\ cleared = [v \in Vec |-> FALSE]
    /\ errs = {}
    /\ last = LastOf("init", 0, 0, FALSE, World)

\* ---- operations on a resource ---------------------------------------------------
\* mr.allocate(bytes) by a caller other than a vector; malloc returns p
DirectAllocate(r, bytes, p) ==
    /\ resAlive[r]
    /\ p \in FreeAddrs
    /\ \E W \in {Allocate(World, r, p, bytes)} :
          SetWorld(W) /\ last' = LastOf("allocate", 0, r, FALSE, W)
    /\ UNCHANGED <<resAlive, vecVars>>

\* mr.allocate(bytes) when malloc returns a null pointer: bad_alloc
DirectAllocateThrows(r, bytes) ==
    /\ resAlive[r]
    /\ \E W \in {Allocate(World, r, Null, bytes)} :
          SetWorld(W) /\ last' = LastOf("allocate", 0, r, TRUE, W)
    /\ UNCHANGED <<resAlive, vecVars>>

\* mr.deallocate(p, bytes) by a caller other than a vector, with any handle
\* that is not the buffer a vector owns
DirectDeallocate(r, p, bytes) ==
    /\ resAlive[r]
    /\ p \notin OwnedBuffers
    /\ \E W \in {Deallocate(World, r, p, bytes)} :
          SetWorld(W) /\ last' = LastOf("deallocate", 0, r, FALSE, W)
    /\ UNCHANGED <<resAlive, vecVars>>

\* ~DynamicMapMemoryResource(); the handles it issued mean nothing afterwards,
\* nor do the values that lived in its blocks
ResDestroy(r) ==
    /\ resAlive[r]
    /\ \E W \in {DynamicMapMemoryResource_dtor(World, r)} :
          /\ SetWorld([W EXCEPT !.issued[r] = EmptyMap])
          /\ last' = LastOf("res_dtor", 0, r, FALSE, W)
    /\ resAlive' = [resAlive EXCEPT ![r] = FALSE]
    /\ UNCHANGED vecVars

\* ---- operations on a vector -------------------------------------------------------
\* pmr_vector(memory_resource* mr)
VecConstruct(v, r) ==
    /\ ~vecAlive[v]
    /\ resAlive[r]
    /\ SetVecs(v :> EmptyVec(r))
    /\ vecAlive' = [vecAlive EXCEPT ![v] = TRUE]
    /\ last' = LastOf("ctor", v, 0, FALSE, World)
    /\ UNCHANGED <<resAlive, worldVars>>

\* push_back(x) that returns, x an object outside the vector; p is what malloc
\* returned if the vector grew
PushBack(v, x) ==
    /\ vecAlive[v] /\ Bound(v)
    /\ size_[v] < MaxSize
    /\ \E p \in (IF size_[v] >= capacity_[v] THEN FreeAddrs ELSE {Null}) :
         \E S \in {push_back([vec |-> VecOf(v), W |-> World], p, ExtRef(x), x)} :
            /\ SetWorld(S.W)
            /\ SetVecs(v :> S.vec)
            /\ last' = LastOf("push_back", v, 0, FALSE, S.W)
    /\ UNCHANGED <<resAlive, vecAlive>>

\* push_back(v[i]) that returns: the argument refers to an element of the vector
\* itself.  If the vector grows, the element referred to has been destroyed and
\* its block released by the time it is read, and the value read is junk.
PushBackElem(v, i) ==
    /\ vecAlive[v] /\ Bound(v)
    /\ size_[v] < MaxSize
    /\ i < size_[v]
    /\ \E p \in (IF size_[v] >= capacity_[v] THEN FreeAddrs ELSE {Null}),
          junk \in (IF size_[v] >= capacity_[v] THEN Val ELSE {Index(v, i)}) :
         \E S \in {push_back([vec |-> VecOf(v), W |-> World], p, ElemRef(data_[v], i), junk)} :
            /\ SetWorld(S.W)
            /\ SetVecs(v :> S.vec)
            /\ last' = LastOf("push_back", v, v, FALSE, S.W)
    /\ UNCHANGED <<resAlive, vecAlive>>

\* push_back(x) on a full vector when the allocation of grow() fails
PushBackThrows(v, x) ==
    /\ vecAlive[v] /\ Bound(v)
    /\ size_[v] < MaxSize
    /\ size_[v] >= capacity_[v]
    /\ \E S \in {push_back_throws([vec |-> VecOf(v), W |-> World])} :
          /\ SetWorld(S.W)
          /\ SetVecs(v :> S.vec)
          /\ last' = LastOf("push_back", v, 0, TRUE, S.W)
    /\ UNCHANGED <<resAlive, vecAlive>>

\* clear()
Clear(v) ==
    /\ vecAlive[v]
    /\ Bound(v) \/ size_[v] = 0
    /\ \E S \in {clear([vec |-> VecOf(v), W |-> World])} :
          /\ SetWorld(S.W)
          /\ SetVecs(v :> S.vec)
          /\ last' = LastOf("clear", v, 0, FALSE, S.W)
    /\ UNCHANGED <<resAlive, vecAlive>>

\* ~pmr_vector(); the members of a destroyed vector are no longer state
VecDestroy(v) ==
    /\ vecAlive[v]
    /\ Bound(v) \/ data_[v] = Null
    /\ \E S \in {pmr_vector_dtor([vec |-> VecOf(v), W |-> World])} :
          /\ SetWorld(S.W)
          /\ last' = LastOf("dtor", v, 0, FALSE, S.W)
    /\ SetVecs(v :> EmptyVec(1))
    /\ vecAlive' = [vecAlive EXCEPT ![v] = FALSE]
    /\ UNCHANGED resAlive

\* pmr_vector b(std::move(a))
MoveConstruct(b, a) ==
    /\ ~vecAlive[b] /\ vecAlive[a]
    /\ \E R \in {move_ctor(VecOf(a))} :
          SetVecs((b :> R.dst) @@ (a :> R.src))
    /\ vecAlive' = [vecAlive EXCEPT ![b] = TRUE]
    /\ last' = LastOf("move_ctor", b, a, FALSE, World)
    /\ UNCHANGED <<resAlive, worldVars>>

\* b = std::move(a); a and b may be the same object.  The source's members are
\* written last (lines 155-157).
MoveAssign(b, a) ==
    /\ vecAlive[b] /\ vecAlive[a]
    /\ Bound(b) \/ data_[b] = Null \/ a = b
    /\ \E R \in {move_assign(VecOf(b), VecOf(a), a = b, World)} :
          /\ SetWorld(R.W)
          /\ SetVecs((a :> R.src) @@ (b :> R.dst))
          /\ last' = LastOf("move_assign", b, a, FALSE, R.W)
    /\ UNCHANGED <<resAlive, vecAlive>>

\* vectors are the only users of the resources, which outlive them
Next ==
    \/ \E v \in Vec, r \in Res : VecConstruct(v, r) /\ UNCHANGED hist
    \/ \E v \in Vec, x \in Val : PushBack(v, x) /\ UNCHANGED hist
    \/ \E v \in Vec, i \in 0..(MaxSize - 1) : PushBackElem(v, i) /\ UNCHANGED hist
    \/ \E v \in Vec, x \in Val : PushBackThrows(v, x) /\ UNCHANGED hist
    \/ \E v \in Vec : Clear(v) /\ UNCHANGED hist
    \/ \E v \in Vec : VecDestroy(v) /\ UNCHANGED hist
    \/ \E b \in Vec, a \in Vec : MoveConstruct(b, a) /\ UNCHANGED hist
    \/ \E b \in Vec, a \in Vec : MoveAssign(b, a) /\ UNCHANGED hist

Spec == Init /\ [][Next]_vars

\* the resources are used by one vector and by other callers at the same time,
\* and may be destroyed before the vector
NextMix ==
    \/ \E r \in Res, bytes \in ByteSizes, p \in Addr :
            DirectAllocate(r, bytes, p) /\ UNCHANGED hist
    \/ \E r \in Res, bytes \in ByteSizes : DirectAllocateThrows(r, bytes) /\ UNCHANGED hist
    \/ \E r \in Res, p \in Addr, bytes \in DeallocSizes :
            DirectDeallocate(r, p, bytes) /\ UNCHANGED hist
    \/ \E r \in Res : ResDestroy(r) /\ UNCHANGED hist
    \/ \E r \in Res : VecConstruct(1, r) /\ UNCHANGED hist
    \/ \E x \in Val : PushBack(1, x) /\ UNCHANGED hist
    \/ \E x \in Val : PushBackThrows(1, x) /\ UNCHANGED hist
    \/ Clear(1) /\ UNCHANGED hist
    \/ VecDestroy(1) /\ UNCHANGED hist

SpecMix == Init /\ [][NextMix]_vars

\* one vector, with the values appended to it and its clears kept as history
Appended(v, x) == pushed' = [pushed EXCEPT ![v] = Append(@, x)] /\ UNCHANGED cleared
Emptied(v, c) ==
    pushed' = [pushed EXCEPT ![v] = <<>>] /\ cleared' = [cleared EXCEPT ![v] = c]

NextAppend ==
    \/ \E r \in Res : VecConstruct(1, r) /\ Emptied(1, FALSE)
    \/ \E x \in Val : PushBack(1, x) /\ Appended(1, x)
    \/ \E i \in 0..(MaxSize - 1) : PushBackElem(1, i) /\ Appended(1, Index(1, i))
    \/ \E x \in Val : PushBackThrows(1, x) /\ UNCHANGED hist
    \/ Clear(1) /\ Emptied(1, TRUE)
    \/ VecDestroy(1) /\ Emptied(1, FALSE)

SpecAppend == Init /\ [][NextAppend]_vars

\* vectors are the only users of the resources, and a resource may be destroyed
\* while vectors are still bound to it; such a vector is not used again, except
\* that it may be moved from
NextLife ==
    \/ \E r \in Res : ResDestroy(r) /\ UNCHANGED hist
    \/ \E v \in Vec, r \in Res : VecConstruct(v, r) /\ UNCHANGED hist
    \/ \E v \in Vec : PushBack(v, 1) /\ UNCHANGED hist
    \/ \E v \in Vec : Clear(v) /\ UNCHANGED hist
    \/ \E v \in Vec : VecDestroy(v) /\ UNCHANGED hist
    \/ \E b \in Vec, a \in Vec : MoveConstruct(b, a) /\ UNCHANGED hist
    \/ \E b \in Vec, a \in Vec : MoveAssign(b, a) /\ UNCHANGED hist

SpecLife == Init /\ [][NextLife]_vars

\* everything at once: vectors, callers that are not vectors, and resources
\* destroyed at any time
NextAll ==
    \/ \E r \in Res, bytes \in ByteSizes, p \in Addr :
            DirectAllocate(r, bytes, p) /\ UNCHANGED hist
    \/ \E r \in Res, p \in Addr, bytes \in DeallocSizes :
            DirectDeallocate(r, p, bytes) /\ UNCHANGED hist
    \/ \E r \in Res : ResDestroy(r) /\ UNCHANGED hist
    \/ \E v \in Vec, r \in Res : VecConstruct(v, r) /\ UNCHANGED hist
    \/ \E v \in Vec : PushBack(v, 1) /\ UNCHANGED hist
    \/ \E v \in Vec : VecDestroy(v) /\ UNCHANGED hist
    \/ \E b \in Vec, a \in Vec : MoveConstruct(b, a) /\ UNCHANGED hist
    \/ \E b \in Vec, a \in Vec : MoveAssign(b, a) /\ UNCHANGED hist

SpecAll == Init /\ [][NextAll]_vars

\* ======================= properties ==========================================

\* C1: while a resource exists, its map holds exactly the handles allocate
\* returned and deallocate was not given since, each with the size asked for
\* when it was allocated (a deallocate of a handle that is not there changes
\* nothing).
C1_Accounting ==
    \A r \in Res : resAlive[r] => allocated_blocks_[r] = issued[r]

\* a matched deallocate has just removed one handle while another stays recorded
C1_Witness ==
    /\ last.op = "deallocate"
    /\ last.calls[1].found
    /\ resAlive[last.w]
    /\ DOMAIN allocated_blocks_[last.w] # {}

\* C2: the destructor of a resource hands to free() every block still in its
\* map, the bytes freed being the sum of the sizes asked for, leaves the map
\* empty, and none of the blocks it issued remains allocated.
C2_DestructorReleasesAll ==
    [][\A r \in Res :
         (last'.op = "res_dtor" /\ last'.w = r /\ resAlive[r] /\ ~resAlive'[r])
         => /\ last'.freed = SumBytes(issued[r])
            /\ allocated_blocks_'[r] = EmptyMap
            /\ (DOMAIN issued[r]) \cap (DOMAIN heap') = {}
            /\ \A p \in DOMAIN issued[r] : p \in DOMAIN heap]_vars

\* a resource was destroyed while at least two blocks were outstanding
C2_Witness ==
    /\ last.op = "res_dtor"
    /\ last.freed >= 2 * ElemSize
    /\ allocated_blocks_[last.w] = EmptyMap

\* C3: a push_back on a full vector whose allocation fails throws and leaves the
\* vector's members and elements, the memory and the resource's map as they were.
C3_FailedGrowthAtomic ==
    [][\A v \in Vec :
         (last'.op = "push_back" /\ last'.threw /\ last'.v = v)
         => /\ size_[v] = capacity_[v]
            /\ VecOf(v)' = VecOf(v)
            /\ Elems(v)' = Elems(v)
            /\ mem' = mem
            /\ heap' = heap
            /\ allocated_blocks_' = allocated_blocks_
            /\ vecAlive' = vecAlive]_vars

\* a push_back on a full vector holding elements has just thrown
C3_Witness ==
    /\ last.op = "push_back"
    /\ last.threw
    /\ size_[last.v] >= 1
    /\ size_[last.v] = capacity_[last.v]
    /\ Len(last.calls) = 1 /\ last.calls[1].ptr = Null

\* C4: a vector that was constructed empty and appended to (never cleared)
\* holds as many elements as were appended, and iteration from begin() to end()
\* meets them in the order they were appended.
C4_AppendOrder ==
    \A v \in Vec :
        (vecAlive[v] /\ ~cleared[v]) => /\ size_[v] = Len(pushed[v])
                                        /\ Elems(v) = pushed[v]

IsPow2(n) == \E k \in 0..n : 2 ^ k = n

CapacityShape ==
    \A v \in Vec : /\ capacity_[v] = 0 \/ IsPow2(capacity_[v])
                   /\ capacity_[v] >= size_[v]

GrowthStep ==
    \A v \in Vec :
        (last'.op = "push_back" /\ ~last'.threw /\ last'.v = v /\ size_[v] >= capacity_[v])
        => capacity_'[v] = IF capacity_[v] = 0 THEN 1 ELSE 2 * capacity_[v]

\* C5: growth takes the capacity from 0 to 1 and otherwise doubles it; the
\* capacity of a vector is always 0 or a power of two and never below its size.
C5_Capacity == []CapacityShape /\ [][GrowthStep]_vars

\* a vector that grew 0 -> 1 -> 2 -> 4
C5_Witness ==
    \E v \in Vec : vecAlive[v] /\ capacity_[v] = 4 /\ size_[v] = 3

IsEmptyVec(v) == data_[v] = Null /\ size_[v] = 0 /\ capacity_[v] = 0

MoveStep ==
    \A a, b \in Vec :
        (a # b /\ last'.op \in {"move_ctor", "move_assign"} /\ last'.v = b /\ last'.w = a)
        => /\ VecOf(b)' = VecOf(a)
           /\ Elems(b)' = Elems(a)
           /\ VecOf(a)' = EmptyVec(alloc_[a])
           /\ vecAlive'[a] /\ vecAlive'[b]

\* an operation on a vector in the moved-from (empty) state leaves every other vector alone
MovedFromStep ==
    \A a, u \in Vec :
        (a # u /\ vecAlive[u] /\ vecAlive[a] /\ IsEmptyVec(a)
         /\ last'.op \in {"push_back", "clear", "dtor"} /\ last'.v = a)
        => /\ VecOf(u)' = VecOf(u)
           /\ Elems(u)' = Elems(u)
           /\ vecAlive'[u]
           /\ data_[u] # Null => /\ MapFind(heap', data_[u])
                                 /\ MapFind(allocated_blocks_'[alloc_[u]], data_[u])

\* C6: after b is move-constructed or move-assigned from a distinct a, b has
\* a's former buffer, size, capacity, elements and allocator and a is empty;
\* destroying or appending to a afterwards does not touch b or release its buffer.
C6_MoveTransfer == [][MoveStep /\ MovedFromStep]_vars

\* b, which held a buffer of another resource, was move-assigned two elements
C6_Witness ==
    /\ last.op = "move_assign"
    /\ last.v # last.w
    /\ size_[last.v] >= 2
    /\ Elems(last.v)[1] # Elems(last.v)[2]
    /\ Len(last.calls) = 1
    /\ last.calls[1].res # alloc_[last.v]
    /\ IsEmptyVec(last.w)

\* C7: a = std::move(a) changes nothing and calls neither allocate nor deallocate.
C7_SelfMoveNoOp ==
    [][\A a \in Vec :
         (last'.op = "move_assign" /\ last'.v = a /\ last'.w = a)
         => /\ UNCHANGED <<allocated_blocks_, resAlive, heap, mem, data_, size_,
                           capacity_, alloc_, vecAlive, errs>>
            /\ last'.calls = <<>>]_vars

\* a vector holding elements was move-assigned from itself
C7_Witness ==
    /\ last.op = "move_assign"
    /\ last.v = last.w
    /\ size_[last.v] >= 1
    /\ data_[last.v] # Null

\* C8: the slots [0, size_) of a vector's buffer hold live elements and the
\* slots [size_, capacity_) hold none; no element lives outside a vector's
\* buffer; no slot is destroyed while empty, none is constructed over a live
\* element, and no buffer is released with an element still alive in it.
C8_LiveSlots ==
    /\ errs \cap {"destroy_dead_slot", "construct_over_live", "dealloc_live_elem",
                  "bad_access"} = {}
    /\ \A v \in Vec :
         (vecAlive[v] /\ Bound(v)) =>
            IF data_[v] = Null
            THEN size_[v] = 0 /\ capacity_[v] = 0
            ELSE /\ MapFind(heap, data_[v])
                 /\ Len(mem[data_[v]]) = capacity_[v]
                 /\ LiveSlots(mem[data_[v]]) = 1..size_[v]
    /\ \A p \in Addr : LiveSlots(mem[p]) # {} => \E v \in Vec : vecAlive[v] /\ data_[v] = p

\* a growth has just moved two elements to a new buffer and released the old
\* one; the new buffer has live and empty slots
C8_Witness ==
    /\ last.op = "push_back"
    /\ Len(last.calls) = 2
    /\ last.calls[2].found
    /\ size_[last.v] = 3 /\ capacity_[last.v] = 4

\* C9: clear() destroys the elements, sets size_ to 0 and leaves capacity_, data_,
\* the allocator, the resources' maps and the heap as they were, calling neither
\* allocate nor deallocate.
C9_ClearFrame ==
    [][\A v \in Vec :
         (last'.op = "clear" /\ last'.v = v)
         => /\ size_'[v] = 0
            /\ capacity_' = capacity_ /\ data_' = data_ /\ alloc_' = alloc_
            /\ allocated_blocks_' = allocated_blocks_
            /\ heap' = heap
            /\ last'.calls = <<>>
            /\ \A p \in Addr : IF p = data_[v]
                               THEN /\ LiveSlots(mem'[p]) = {}
                                    /\ Len(mem'[p]) = Len(mem[p])
                                    /\ LiveSlots(mem[p]) = 1..size_[v]
                               ELSE mem'[p] = mem[p]]_vars

\* a vector with a buffer of at least two slots has just been cleared
C9_Witness ==
    /\ last.op = "clear"
    /\ size_[last.v] = 0
    /\ capacity_[last.v] >= 2
    /\ data_[last.v] # Null

\* C10: after clear() the size is 0, and the k values appended since are the
\* size() == k elements operator[] returns at 0 .. k-1, in append order.
C10_ClearThenReuse ==
    /\ last.op = "clear" => size_[last.v] = 0
    /\ \A v \in Vec :
         (vecAlive[v] /\ cleared[v])
         => /\ size_[v] = Len(pushed[v])
            /\ \A i \in 0..(Len(pushed[v]) - 1) : Index(v, i) = pushed[v][i + 1]

C16_AssignReleasesThenAdopts ==
    [][\A a, b \in Vec :
         (a # b /\ last'.op = "move_assign" /\ last'.v = b /\ last'.w = a)
         => /\ IF data_[b] # Null
               THEN /\ Len(last'.calls) = 1
                    /\ last'.calls[1].fn = "deallocate"
                    /\ last'.calls[1].res = alloc_[b]
                    /\ last'.calls[1].ptr = data_[b]
                    /\ last'.calls[1].found
                    /\ last'.freed = capacity_[b] * ElemSize
                    /\ ~MapFind(heap', data_[b])
                    /\ \A r \in Res : ~MapFind(allocated_blocks_'[r], data_[b])
               ELSE last'.calls = <<>> /\ last'.freed = 0
            /\ errs' = errs
            /\ data_'[b] = data_[a]
            /\ data_[a] # Null
                 => /\ MapFind(allocated_blocks_'[alloc_[a]], data_[a])
                    /\ allocated_blocks_'[alloc_[a]][data_[a]] = capacity_[a] * ElemSize
                    /\ MapFind(heap', data_[a])
                    /\ mem'[data_[a]] = mem[data_[a]]]_vars

\* a vector holding a buffer of two slots or more was assigned the buffer of a
\* vector of another resource
C16_Witness ==
    /\ last.op = "move_assign"
    /\ last.v # last.w
    /\ Len(last.calls) = 1
    /\ last.calls[1].bytes >= 2 * ElemSize
    /\ last.calls[1].res # alloc_[last.v]
    /\ data_[last.v] # Null
    /\ size_[last.v] >= 1

\* C17: a push_back on a vector with size_ = capacity_ asks its allocator for
\* one block of the new capacity and then, if it had a buffer, releases that
\* buffer, in this order and with no other call (if the allocation fails the
\* allocate call is the only one); a push_back on a vector with size_ < capacity_
\* calls no allocator and leaves data_ and capacity_ as they were.
C17_AllocatorCalls ==
    [][\A v \in Vec :
         (last'.op = "push_back" /\ last'.v = v)
         => LET calls == last'.calls
            IN IF size_[v] = capacity_[v]
               THEN /\ Len(calls) >= 1
                    /\ calls[1].fn = "allocate"
                    /\ calls[1].res = alloc_[v]
                    /\ calls[1].bytes =
                          (IF capacity_[v] = 0 THEN 1 ELSE 2 * capacity_[v]) * ElemSize
                    /\ IF last'.threw \/ capacity_[v] = 0
                       THEN Len(calls) = 1
                       ELSE /\ Len(calls) = 2
                            /\ calls[2].fn = "deallocate"
                            /\ calls[2].res = alloc_[v]
                            /\ calls[2].ptr = data_[v]
               ELSE /\ size_[v] < capacity_[v]
                    /\ calls = <<>>
                    /\ ~last'.threw
                    /\ data_'[v] = data_[v]
                    /\ capacity_'[v] = capacity_[v]]_vars

\* a push_back has just grown a vector from capacity 1 to 2: one allocate, then
\* one deallocate of the buffer it had
C17_Witness ==
    /\ last.op = "push_back"
    /\ ~last.threw
    /\ Len(last.calls) = 2
    /\ last.calls[1].fn = "allocate"
    /\ last.calls[2].fn = "deallocate" /\ last.calls[2].found
    /\ capacity_[last.v] = 2

\* the vectors that hold storage of resource r
Holders(r) == {v \in Vec : vecAlive[v] /\ alloc_[v] = r /\ capacity_[v] # 0}

\* C18: with vectors the only users of the resources, the map of a resource
\* holds exactly the buffers of the vectors bound to it that have a capacity,
\* each with capacity_ * sizeof(T) bytes; no two vectors have the same buffer,
\* and a vector of capacity 0 has none.
C18_MapMatchesVectors ==
    /\ \A r \in Res :
         /\ DOMAIN allocated_blocks_[r] = {data_[v] : v \in Holders(r)}
         /\ \A v \in Holders(r) :
               /\ data_[v] # Null
               /\ allocated_blocks_[r][data_[v]] = capacity_[v] * ElemSize
    /\ \A u, v \in Vec :
         (u # v /\ vecAlive[u] /\ vecAlive[v] /\ data_[u] # Null) => data_[u] # data_[v]
    /\ \A v \in Vec : (vecAlive[v] /\ capacity_[v] = 0) => data_[v] = Null

\* two vectors hold buffers of the same resource, one of them having just grown
C18_Witness ==
    /\ last.op = "push_back"
    /\ Len(last.calls) = 2
    /\ \E u \in Vec : /\ u # last.v
                       /\ u \in Holders(alloc_[last.v])
                       /\ last.v \in Holders(alloc_[last.v])
                       /\ Cardinality(DOMAIN allocated_blocks_[alloc_[last.v]]) = 2

\* every block of the heap is an outstanding block of a resource that exists
NoOrphanBlock ==
    /\ \A p \in DOMAIN heap :
          \E r \in Res : /\ resAlive[r]
                         /\ MapFind(issued[r], p)
                         /\ MapFind(allocated_blocks_[r], p)
    /\ \A r \in Res : ~resAlive[r] => allocated_blocks_[r] = EmptyMap

\* the destructor of r frees the blocks r still holds, whether or not a vector
\* holds one of them, and nothing else; if no vector bound to r exists by then,
\* r's map is empty already and nothing is left to free
ResDtorStep ==
    \A r \in Res :
        (last'.op = "res_dtor" /\ last'.w = r)
        => /\ (DOMAIN issued[r]) \cap (DOMAIN heap') = {}
           /\ DOMAIN heap' = (DOMAIN heap) \ (DOMAIN issued[r])
           /\ (\A v \in Vec : ~(vecAlive[v] /\ alloc_[v] = r))
                => /\ allocated_blocks_[r] = EmptyMap
                   /\ last'.freed = 0
                   /\ heap' = heap

\* C12: whatever was done to the vectors bound to a resource, once the resource
\* is destroyed none of the blocks it obtained remains allocated, vectors that
\* were never destroyed included; if every vector was destroyed first, the
\* resource's map is empty when its destructor runs.
C12_NothingOutlivesResource == []NoOrphanBlock /\ [][ResDtorStep]_vars

\* a resource was destroyed while a vector holding elements was still bound to
\* it, and the heap is empty
C12_Witness ==
    /\ last.op = "res_dtor"
    /\ last.freed >= 2 * ElemSize
    /\ heap = EmptyMap
    /\ \E v \in Vec : vecAlive[v] /\ alloc_[v] = last.w /\ data_[v] # Null /\ size_[v] >= 1

VecOps == {"push_back", "clear", "dtor", "move_ctor", "move_assign"}

\* C14: every deallocate call a vector makes (in growth, move assignment and
\* destruction) names a handle the map of its allocator holds at that moment,
\* with the size recorded for it.
C14_MatchedDeallocate ==
    last.op \in VecOps
    => \A i \in 1..Len(last.calls) :
          last.calls[i].fn = "deallocate"
          => /\ last.calls[i].found
             /\ last.calls[i].bytes = last.calls[i].recorded

\* a vector holding one element in a buffer of two slots or more was destroyed
\* after another resource had been
C14_Witness ==
    /\ last.op = "dtor"
    /\ Len(last.calls) = 1
    /\ last.calls[1].found
    /\ last.calls[1].bytes >= 2 * ElemSize
    /\ resAlive[last.calls[1].res]
    /\ \E r \in Res : ~resAlive[r]

\* C19: free() is never given a block that is not allocated.
C19_NoDoubleFree == "double_free" \notin errs

\* a deallocate has just been given a handle that is not allocated any more or
\* never was, blocks of the same resource being outstanding and another
\* resource having been destroyed
C19_Witness ==
    /\ last.op = "deallocate"
    /\ ~last.calls[1].found
    /\ ~MapFind(heap, last.calls[1].ptr)
    /\ DOMAIN allocated_blocks_[last.w] # {}
    /\ \E r \in Res : ~resAlive[r]
    /\ \E v \in Vec : vecAlive[v] /\ data_[v] # Null

====
